---- MODULE Spec2Model ----
(***************************************************************************)
(* A model of the CSV reconciliation tool of src/app.py: the table         *)
(* normalizer (detect_header_row, preprocess_csv), the reconciliation      *)
(* engine (compare_dataframes) and the four-step wizard that drives them.  *)
(*                                                                         *)
(* Text is a sequence of one-character strings, so that trimming, lower-   *)
(* casing, substring search and suffixing are computed, not assumed.  A    *)
(* cell is a text, the missing marker NaN, or a float (FloatCell).         *)
(***************************************************************************)
EXTENDS Integers, Sequences, FiniteSets, TLC

VARIABLES
    pc,          \* which operation has run: "input" | "done"
    df_a, df_b,  \* the tables handed to compare_dataframes
    key_a, key_b, cols_a, cols_b,   \* its key and column arguments
    raising,     \* the keys whose comparison raises inside the per-key try
    out,         \* what compare_dataframes returned and reported
    df,          \* the raw table handed to preprocess_csv
    norm,        \* what preprocess_csv returned, with the detected header row
    session_state,  \* st.session_state of the wizard
    page         \* what the last script run rendered

engineVars == <<df_a, df_b, key_a, key_b, cols_a, cols_b, raising, out>>
normVars == <<df, norm>>
wizardVars == <<session_state, page>>
vars == <<pc, engineVars, normVars, wizardVars>>

(***************************************************************************)
(* Text and cells                                                          *)
(***************************************************************************)
NaN == <<"NaN">>
FloatCell(d) == <<"#float", d>>
IsFloat(c) == Len(c) = 2 /\ c[1] = "#float"

notna(c) == c # NaN

\* str(cell): a text is itself, a float prints with its fraction, nan as 'nan'
Str(c) ==
    IF c = NaN THEN <<"n", "a", "n">>
    ELSE IF IsFloat(c) THEN <<c[2], ".", "0">>
    ELSE c

RECURSIVE LStrip(_)
LStrip(s) == IF s # <<>> /\ Head(s) = " " THEN LStrip(Tail(s)) ELSE s

RECURSIVE RStrip(_)
RStrip(s) ==
    IF s # <<>> /\ s[Len(s)] = " " THEN RStrip(SubSeq(s, 1, Len(s) - 1)) ELSE s

\* str.strip()
Strip(s) == RStrip(LStrip(s))

Range(s) == {s[i] : i \in DOMAIN s}

Min(a, b) == IF a < b THEN a ELSE b

(***************************************************************************)
(* Tables: [columns |-> <<name, ...>>, rows |-> <<row, ...>>], a row being *)
(* a sequence of cells as long as columns.  Column names may repeat.       *)
(***************************************************************************)
\* the positions of the columns called name, in column order
Positions(columns, name) ==
    SelectSeq([i \in 1..Len(columns) |-> i], LAMBDA i : columns[i] = name)

\* df[[names]]: every column called names[1], then every one called names[2], ...
RECURSIVE ProjPositions(_, _)
ProjPositions(columns, names) ==
    IF names = <<>> THEN <<>>
    ELSE Positions(columns, Head(names)) \o ProjPositions(columns, Tail(names))

Project(table, names) ==
    LET pos == ProjPositions(table.columns, names)
    IN  [columns |-> [i \in 1..Len(pos) |-> table.columns[pos[i]]],
         rows    |-> [r \in 1..Len(table.rows) |->
                        [i \in 1..Len(pos) |-> table.rows[r][pos[i]]]]]

KEY == <<"k", "e", "y">>

\* df.rename(columns={key: 'key'})
Rename(columns, key) ==
    [i \in 1..Len(columns) |-> IF columns[i] = key THEN KEY ELSE columns[i]]

(***************************************************************************)
(* compare_dataframes                                                      *)
(***************************************************************************)
\* variant: the comparison columns are not checked
ConfigErrorKeysOnly(dfa, dfb, ka, kb, ca, cb) ==
    IF ka \notin Range(dfa.columns) THEN "key_a_not_found"
    ELSE IF kb \notin Range(dfb.columns) THEN "key_b_not_found"
    ELSE "none"

\* lines 204-221: the checks that return None before any work
ConfigError(dfa, dfb, ka, kb, ca, cb) ==
    IF ka \notin Range(dfa.columns) THEN "key_a_not_found"
    ELSE IF kb \notin Range(dfb.columns) THEN "key_b_not_found"
    ELSE IF \E i \in DOMAIN ca : ca[i] \notin Range(dfa.columns)
         THEN "cols_a_not_found"
    ELSE IF \E i \in DOMAIN cb : cb[i] \notin Range(dfb.columns)
         THEN "cols_b_not_found"
    ELSE "none"

\* variant: the rows with an empty key are kept
DropEmptyKeysNot(rows) == rows

\* line 239/240: the rows whose normalized key is not empty
DropEmptyKeys(rows) == SelectSeq(rows, LAMBDA r : Strip(r[1]) # <<>>)

\* line 231/232: astype(str).str.strip() on the key column
NormalizeKey(cell) == Strip(Str(cell))

\* lines 224-240 for one side: project to [key] + cols, drop the rows with a
\* missing key, normalize the key, rename it to 'key', drop the empty keys.
\* raised: df[key] (line 231) or df['key'] (line 239) is a DataFrame, not a
\* Series, when the label names several columns, and has no .str
CleanKeys(table, key, cols) ==
    LET proj    == Project(table, <<key>> \o cols)
        kpos    == Positions(proj.columns, key)
        present == SelectSeq(proj.rows,
                             LAMBDA r : \A i \in Range(kpos) : notna(r[i]))
        renamed == Rename(proj.columns, key)
        raised  == Len(kpos) # 1 \/ Len(Positions(renamed, KEY)) # 1
        normed  == [r \in 1..Len(present) |->
                      [present[r] EXCEPT ![1] = NormalizeKey(present[r][1])]]
    IN  [raised  |-> raised,
         columns |-> renamed,
         rows    |-> IF raised THEN <<>> ELSE DropEmptyKeys(normed)]

Keys(frame) == {frame.rows[r][1] : r \in DOMAIN frame.rows}

\* lines 243, 246: frame[~frame['key'].isin(other['key'])]
OnlyIn(frame, other) ==
    SelectSeq(frame.rows, LAMBDA r : r[1] \notin Keys(other))

\* line 249
CommonKeysOf(A, B) == Keys(A) \cap Keys(B)

\* variant: the last row with the key is taken (iloc[-1])
LastRow(frame, key) ==
    LET hits == SelectSeq(frame.rows, LAMBDA r : r[1] = key)
    IN  hits[Len(hits)]

\* lines 255-256, 260-261: rows[rows['key'] == key].iloc[0]
FirstRow(frame, key) ==
    LET hits == SelectSeq(frame.rows, LAMBDA r : r[1] = key)
    IN  hits[1]

\* lines 268-269: row.get(col, ''), for a label that names at most one column
Get(frame, row, col) ==
    LET pos == Positions(frame.columns, col)
    IN  IF pos = <<>> THEN <<>> ELSE row[pos[1]]

\* row.get(col) is a Series when the label names several columns, and
\* "... if pd.notna(val) else" (lines 272-273) then raises ValueError
Ambiguous(frame, col) == Len(Positions(frame.columns, col)) > 1

\* lines 272-273
TextOf(val) == IF notna(val) THEN Strip(Str(val)) ELSE <<>>

\* variant: the values are compared as they are, untrimmed
PairDiffersRaw(val_a, val_b) == val_a # val_b

\* variant: only the value of A is trimmed
PairDiffersOneSided(val_a, val_b) ==
    TextOf(val_a) # (IF notna(val_b) THEN Str(val_b) ELSE <<>>)

\* line 278
PairDiffers(val_a, val_b) == TextOf(val_a) # TextOf(val_b)

\* line 267: zip(cols_a, cols_b) stops at the shorter list
ZipLen(ca, cb) == Min(Len(ca), Len(cb))

\* whether the body of the per-key try raises: an ambiguous label in a zipped
\* pair (the same for every key), or a failure the caller's data provokes
KeyRaises(A, B, ca, cb, key, bad) ==
    \/ key \in bad
    \/ \E i \in 1..ZipLen(ca, cb) : Ambiguous(A, ca[i]) \/ Ambiguous(B, cb[i])

\* lines 264-282 for one key: the mismatch record, and whether it is kept
CompareKey(A, B, ca, cb, key) ==
    LET row_a == FirstRow(A, key)
        row_b == FirstRow(B, key)
        pairs == [i \in 1..ZipLen(ca, cb) |->
                    <<Get(A, row_a, ca[i]), Get(B, row_b, cb[i])>>]
    IN  [mismatch_found |-> \E i \in DOMAIN pairs :
                               PairDiffers(pairs[i][1], pairs[i][2]),
         details |-> [key |-> key, pairs |-> pairs]]

\* variant: the loop ends at the first key that raises (break)
AfterKeyErrorBreak(rest) == <<>>

\* lines 284-286: what the loop goes on to after a key raised (continue)
AfterKeyError(rest) == rest

\* lines 252-286: the mismatch records, keys visited in the given order
RECURSIVE MismatchLoop(_, _, _, _, _, _)
MismatchLoop(A, B, ca, cb, order, bad) ==
    IF order = <<>> THEN <<>>
    ELSE LET key  == Head(order)
             rest == MismatchLoop(A, B, ca, cb, Tail(order), bad)
         IN  IF KeyRaises(A, B, ca, cb, key, bad) THEN AfterKeyError(rest)
             ELSE LET c == CompareKey(A, B, ca, cb, key)
                  IN  IF c.mismatch_found THEN <<c.details>> \o rest
                      ELSE rest

\* the keys the loop reported with st.warning (line 285)
Warned(A, B, ca, cb, order, bad) ==
    {k \in Range(order) : KeyRaises(A, B, ca, cb, k, bad)}

NoResult(error, stage) ==
    [none |-> TRUE, error |-> error, stage |-> stage,
     only_in_a |-> <<>>, only_in_b |-> <<>>, mismatches |-> <<>>,
     total_a |-> 0, total_b |-> 0, common_count |-> 0, warnings |-> {}]

\* the keys compare_dataframes iterates over (line 253); {} when it returns
\* before line 249
common_keys(dfa, dfb, ka, kb, ca, cb) ==
    IF ConfigError(dfa, dfb, ka, kb, ca, cb) # "none" THEN {}
    ELSE CommonKeysOf(CleanKeys(dfa, ka, ca), CleanKeys(dfb, kb, cb))

\* lines 201-299.  order: the order in which "for key in common_keys" visits
\* the set; bad: the keys whose comparison raises.  none: None was returned;
\* error: what st.error reported; stage: how far the call got
compare_dataframes(dfa, dfb, ka, kb, ca, cb, order, bad) ==
    LET err == ConfigError(dfa, dfb, ka, kb, ca, cb)
    IN  IF err # "none" THEN NoResult(err, "validate")
        ELSE
        LET A == CleanKeys(dfa, ka, ca)
            B == CleanKeys(dfb, kb, cb)
        IN  IF A.raised \/ B.raised THEN NoResult("exception", "normalize")
            ELSE [none |-> FALSE, error |-> "none", stage |-> "return",
                  only_in_a |-> OnlyIn(A, B),
                  only_in_b |-> OnlyIn(B, A),
                  mismatches |-> MismatchLoop(A, B, ca, cb, order, bad),
                  total_a |-> Len(A.rows),
                  total_b |-> Len(B.rows),
                  common_count |-> Cardinality(CommonKeysOf(A, B)),
                  warnings |-> Warned(A, B, ca, cb, order, bad)]

(***************************************************************************)
(* detect_header_row                                                       *)
(***************************************************************************)
\* lines 112-117
header_keywords ==
    <<<<"d", "a", "t", "e">>,
       <<"i", "n", "v", "o", "i", "c", "e">>,
       <<"b", "i", "l", "l">>,
       <<"p", "a", "r", "t", "i", "c", "u", "l", "a", "r", "s">>,
       <<"a", "m", "o", "u", "n", "t">>,
       <<"g", "s", "t">>,
       <<"t", "a", "x">>,
       <<"n", "u", "m", "b", "e", "r">>,
       <<"n", "o">>,
       <<"d", "e", "s", "c", "r", "i", "p", "t", "i", "o", "n">>,
       <<"q", "u", "a", "n", "t", "i", "t", "y">>,
       <<"r", "a", "t", "e">>,
       <<"t", "o", "t", "a", "l">>,
       <<"g", "s", "t", "i", "n">>,
       <<"v", "o", "u", "c", "h", "e", "r">>,
       <<"l", "e", "d", "g", "e", "r">>,
       <<"a", "c", "c", "o", "u", "n", "t">>,
       <<"d", "e", "b", "i", "t">>,
       <<"c", "r", "e", "d", "i", "t">>,
       <<"b", "a", "l", "a", "n", "c", "e">>,
       <<"n", "a", "m", "e">>,
       <<"p", "a", "r", "t", "y">>,
       <<"c", "u", "s", "t", "o", "m", "e", "r">>,
       <<"v", "e", "n", "d", "o", "r">>,
       <<"s", "u", "p", "p", "l", "i", "e", "r">>,
       <<"d", "o", "c", "u", "m", "e", "n", "t">>,
       <<"r", "e", "f", "e", "r", "e", "n", "c", "e">>>>

UpperToLower ==
    ("A" :> "a") @@ ("B" :> "b") @@ ("C" :> "c") @@ ("D" :> "d") @@ ("E" :> "e")
    @@ ("F" :> "f") @@ ("G" :> "g") @@ ("H" :> "h") @@ ("I" :> "i") @@ ("J" :> "j")
    @@ ("K" :> "k") @@ ("L" :> "l") @@ ("M" :> "m") @@ ("N" :> "n") @@ ("O" :> "o")
    @@ ("P" :> "p") @@ ("Q" :> "q") @@ ("R" :> "r") @@ ("S" :> "s") @@ ("T" :> "t")
    @@ ("U" :> "u") @@ ("V" :> "v") @@ ("W" :> "w") @@ ("X" :> "x") @@ ("Y" :> "y")
    @@ ("Z" :> "z")

\* str.lower()
Lower(s) ==
    [i \in 1..Len(s) |-> IF s[i] \in DOMAIN UpperToLower THEN UpperToLower[s[i]]
                          ELSE s[i]]

\* "keyword in row_text"
Contains(text, word) ==
    \E i \in 1..(Len(text) - Len(word) + 1) :
        SubSeq(text, i, i + Len(word) - 1) = word

\* ' '.join(parts)
RECURSIVE Join(_)
Join(parts) ==
    IF parts = <<>> THEN <<>>
    ELSE IF Len(parts) = 1 THEN parts[1]
    ELSE parts[1] \o <<" ">> \o Join(Tail(parts))

\* lines 129, 135: pd.notna(cell) and str(cell).strip() != ''
NonEmptyCell(cell) == notna(cell) /\ Strip(Str(cell)) # <<>>

\* line 129
RowText(row) ==
    LET kept == SelectSeq(row, NonEmptyCell)
    IN  Join([i \in 1..Len(kept) |-> Lower(Str(kept[i]))])

\* line 132
KeywordMatches(row) ==
    LET row_text == RowText(row)
    IN  Cardinality({k \in DOMAIN header_keywords :
                        Contains(row_text, header_keywords[k])})

\* line 135
NonEmptyCount(row) == Len(SelectSeq(row, NonEmptyCell))

\* line 138, in tenths: keyword_matches * 2 + non_empty_count * 0.1
ScoreOf(keyword_matches, non_empty_count) ==
    keyword_matches * 20 + non_empty_count

Score(row) == ScoreOf(KeywordMatches(row), NonEmptyCount(row))

\* line 123: the number of rows scanned
ScanWindow == 15
CheckRows(table) == Min(ScanWindow, Len(table.rows))

\* variant: a later row with the same score replaces the earlier one
BetterScoreOrEqual(score, best) == score >= best

\* line 140: score > max_keyword_matches
BetterScore(score, best) == score > best

\* lines 125-145: the loop from row idx (0-based) on, with the best so far
RECURSIVE HeaderLoop(_, _, _, _)
HeaderLoop(table, idx, best, header_row_idx) ==
    IF idx >= CheckRows(table) THEN header_row_idx
    ELSE LET row == table.rows[idx + 1]
             keyword_matches == KeywordMatches(row)
             score == ScoreOf(keyword_matches, NonEmptyCount(row))
         IN  IF BetterScore(score, best) /\ keyword_matches >= 1
             THEN HeaderLoop(table, idx + 1, score, idx)
             ELSE HeaderLoop(table, idx + 1, best, header_row_idx)

\* lines 110-147; the index is 0-based, as in the code
detect_header_row(table) == HeaderLoop(table, 0, 0, 0)

(***************************************************************************)
(* preprocess_csv                                                          *)
(***************************************************************************)
\* dropna(how='all'): the rows with a value
DropEmptyRows(table) ==
    [table EXCEPT !.rows = SelectSeq(table.rows,
                               LAMBDA r : \E i \in DOMAIN r : notna(r[i]))]

\* dropna(axis=1, how='all'): the columns with a value in some row (none,
\* when there is no row)
DropEmptyColumns(table) ==
    LET keep == SelectSeq([i \in 1..Len(table.columns) |-> i],
                          LAMBDA i : \E r \in DOMAIN table.rows :
                                        notna(table.rows[r][i]))
    IN  [columns |-> [j \in 1..Len(keep) |-> table.columns[keep[j]]],
         rows    |-> [r \in 1..Len(table.rows) |->
                        [j \in 1..Len(keep) |-> table.rows[r][keep[j]]]]]

\* lines 159-161: the detected row becomes the header, the rows up to it go
PromoteHeader(table, header_idx) ==
    IF header_idx > 0
    THEN [columns |-> table.rows[header_idx + 1],
          rows    |-> SubSeq(table.rows, header_idx + 2, Len(table.rows))]
    ELSE table

RECURSIVE Digits(_)
Digits(n) ==
    LET d == <<"0", "1", "2", "3", "4", "5", "6", "7", "8", "9">>[(n % 10) + 1]
    IN  IF n < 10 THEN <<d>> ELSE Digits(n \div 10) \o <<d>>

Unnamed_Column == <<"U", "n", "n", "a", "m", "e", "d", "_", "C", "o", "l", "u", "m", "n">>

\* lines 175-179
CleanName(col) ==
    LET clean_col == Strip(Str(col))
    IN  IF clean_col = <<>> \/ clean_col = <<"n", "a", "n">> \/ clean_col = <<"N", "o", "n", "e">>
        THEN Unnamed_Column ELSE clean_col

\* lines 173-188: column_counts and cleaned_columns after the columns from
\* position i on
RECURSIVE CleanLoop(_, _, _, _)
CleanLoop(columns, i, column_counts, cleaned_columns) ==
    IF i > Len(columns) THEN cleaned_columns
    ELSE LET clean_col == CleanName(columns[i])
         IN  IF clean_col \in DOMAIN column_counts
             THEN LET n == column_counts[clean_col] + 1
                  IN  CleanLoop(columns, i + 1,
                          [column_counts EXCEPT ![clean_col] = n],
                          Append(cleaned_columns,
                                 clean_col \o <<"_">> \o Digits(n)))
             ELSE CleanLoop(columns, i + 1,
                      column_counts @@ (clean_col :> 0),
                      Append(cleaned_columns, clean_col))

EmptyCounts == [c \in {} |-> 0]

\* lines 169-190
CleanColumns(columns) == CleanLoop(columns, 1, EmptyCounts, <<>>)

\* line 153: what detect_header_row is called on
BeforeDetection(table) == DropEmptyColumns(DropEmptyRows(table))

\* lines 158-195, given the frame of line 153 and the detected row
AfterDetection(cleaned, header_idx) ==
    LET headered == DropEmptyRows(PromoteHeader(cleaned, header_idx))
        renamed  == [headered EXCEPT !.columns = CleanColumns(headered.columns)]
    IN  DropEmptyColumns(renamed)

\* lines 149-195
preprocess_csv(table) ==
    LET cleaned == BeforeDetection(table)
    IN  AfterDetection(cleaned, detect_header_row(cleaned))

(***************************************************************************)
(* The inputs of the engine's specification                                *)
(***************************************************************************)
MaxTotalRows == 4    \* rows of A and B together, in the key family
MaxCols == 2         \* length of a column list, in the configuration family

Orders(S) ==
    {f \in [1..Cardinality(S) -> S] : \A k \in S : \E i \in DOMAIN f : f[i] = k}

SeqsUpTo(S, n) == UNION {[1..k -> S] : k \in 0..n}

Blank == <<" ">>
id == <<"i", "d">>
no == <<"n", "o">>
cx == <<"x">>
cy == <<"y">>
cv == <<"v">>
cw == <<"w">>

DataVals == {NaN, Blank, <<"1">>, FloatCell("1")}

\* the rows of the key family: two keys over a present or a missing value,
\* a key with a trailing blank, and the rows without a key
KeyRows ==
    ({<<"a">>, <<"b">>} \X {NaN, <<"1">>})
        \cup ({<<"a", " ">>, NaN, Blank} \X {<<"1">>})

NoTable == [columns |-> <<>>, rows |-> <<>>]
NoOut == NoResult("none", "not_called")

NoNorm == [header_idx |-> 0, scanned |-> NoTable, table |-> NoTable]

NormIdle == df = NoTable /\ norm = NoNorm
WizardIdle == session_state = [step |-> 0] /\ page = "none"
EngineIdle ==
    /\ df_a = NoTable /\ df_b = NoTable
    /\ key_a = <<>> /\ key_b = <<>> /\ cols_a = <<>> /\ cols_b = <<>>
    /\ raising = {} /\ out = NoOut

\* key family: a key and one compared column per side, any rows
InitKeys ==
    /\ \E ra \in SeqsUpTo(KeyRows, MaxTotalRows) :
       \E rb \in SeqsUpTo(KeyRows, MaxTotalRows - Len(ra)) :
          /\ df_a = [columns |-> <<id, cx>>, rows |-> ra]
          /\ df_b = [columns |-> <<no, cv>>, rows |-> rb]
    /\ key_a = id /\ key_b = no
    /\ cols_a = <<cx>> /\ cols_b = <<cv>>

\* pair family: one row per side under the same key, two compared columns
InitPairs ==
    /\ \E ra \in {<<"a">>} \X DataVals \X DataVals :
       \E rb \in {<<"a">>, <<"a", " ">>} \X DataVals \X DataVals :
          /\ df_a = [columns |-> <<id, cx, cy>>, rows |-> <<ra>>]
          /\ df_b = [columns |-> <<no, cv, cw>>, rows |-> <<rb>>]
    /\ key_a = id /\ key_b = no
    /\ cols_a \in {<<cx, cy>>, <<cy, cx>>, <<cx>>, <<>>}
    /\ cols_b \in {<<cv, cw>>, <<cw>>, <<>>}

\* configuration family: fixed rows; key and column arguments that exist,
\* do not exist, repeat or collide; one table of A has a repeated column
\* name, one a column called 'key'
ConfigNames == {id, cx, cw, KEY}
ConfigNamesB == {id, cw}
ConfigTables ==
    {[columns |-> <<id, cx, cy>>,
      rows |-> << <<(<<"a">>), (<<"1">>), (<<"1">>)>>,
                  <<(<<"b">>), (<<"1">>), NaN>> >>],
     [columns |-> <<id, cx, cx>>,
      rows |-> << <<(<<"a">>), (<<"1">>), (<<"1">>)>> >>],
     [columns |-> <<id, KEY, cx>>,
      rows |-> << <<(<<"a">>), (<<"1">>), (<<"1">>)>> >>]}

InitConfig ==
    /\ df_a \in ConfigTables
    /\ df_b = [columns |-> <<id, cx, cy>>,
               rows |-> << <<(<<"a">>), Blank, (<<"1">>)>> >>]
    /\ key_a \in ConfigNames /\ key_b \in ConfigNamesB
    /\ cols_a \in SeqsUpTo(ConfigNames, MaxCols)
    /\ cols_b \in SeqsUpTo({cx, cw}, MaxCols)

InitEngine ==
    /\ pc = "input"
    /\ InitKeys \/ InitPairs \/ InitConfig
    /\ raising = {}
    /\ out = NoOut
    /\ NormIdle /\ WizardIdle

\* one call of compare_dataframes on the stored arguments
Compare ==
    /\ pc = "input"
    /\ \E order \in Orders(common_keys(df_a, df_b, key_a, key_b,
                                               cols_a, cols_b)) :
       \E bad \in SUBSET Range(order) :
          /\ raising' = bad
          /\ out' = compare_dataframes(df_a, df_b, key_a, key_b,
                                       cols_a, cols_b, order, bad)
    /\ pc' = "done"
    /\ UNCHANGED <<df_a, df_b, key_a, key_b, cols_a, cols_b, normVars, wizardVars>>

NextEngine == Compare

SpecEngine == InitEngine /\ [][NextEngine]_vars

(***************************************************************************)
(* The inputs of the normalizer's specification                            *)
(***************************************************************************)
MaxNormRows == 2      \* rows of a raw table, in the cleaning family
MaxHeaderRows == 16   \* rows of a raw table, in the header family

NormCells == {NaN, <<"x">>, no}
LastCells == {NaN, <<"x">>, <<"n", "o", "_", "1">>}
RawHeaders ==
    {<<(<<"a">>), (<<"b">>), (<<"c">>)>>,
     <<(<<"a">>), (<<" ", "a">>), (<<"a", "_", "1">>)>>,
     <<(<<"a">>), (<<"N", "o", "n", "e">>), Blank>>}

\* cleaning family: three columns, a few rows of any cells
InitCleaning ==
    /\ \E h \in RawHeaders :
       \E rs \in SeqsUpTo(NormCells \X NormCells \X LastCells, MaxNormRows) :
          df = [columns |-> h, rows |-> rs]

Filler == <<(<<"x">>), NaN>>
HeaderRows ==
    {<<(<<"D", "a", "t", "e">>), NaN>>, <<NaN, (<<"D", "a", "t", "e">>)>>, <<(<<"D", "a", "t", "e">>), (<<"n", "o", "t", "e">>)>>, <<(<<"g", "s", "t", "i", "n">>), NaN>>, <<NaN, NaN>>}

\* header family: two columns, many rows, all of them the filler row (no
\* keyword) but at most two
InitHeader ==
    \E n \in 0..MaxHeaderRows :
    \E p1 \in 1..n : \E p2 \in p1..n :
    \E r1 \in HeaderRows : \E r2 \in HeaderRows :
       df = [columns |-> <<(<<"a">>), (<<"b">>)>>,
             rows |-> [i \in 1..n |-> IF i = p1 THEN r1
                                      ELSE IF i = p2 THEN r2 ELSE Filler]]

InitNorm ==
    /\ pc = "input"
    /\ InitCleaning \/ InitHeader
    /\ norm = NoNorm
    /\ EngineIdle /\ WizardIdle

\* one call of preprocess_csv on the raw table
Preprocess ==
    /\ pc = "input"
    /\ \E cleaned \in {BeforeDetection(df)} :
       \E header_idx \in {detect_header_row(cleaned)} :
          norm' = [header_idx |-> header_idx,
                   scanned    |-> cleaned,
                   table      |-> AfterDetection(cleaned, header_idx)]
    /\ pc' = "done"
    /\ UNCHANGED <<df, engineVars, wizardVars>>

NextNorm == Preprocess

SpecNorm == InitNorm /\ [][NextNorm]_vars

(***************************************************************************)
(* The wizard: st.session_state and the four render_step functions.  One   *)
(* action is one user interaction with the script runs it triggers.        *)
(***************************************************************************)
MaxSelected == 1     \* columns selected per side at step 3

NoFile == [columns |-> <<>>, rows |-> <<>>, name |-> "none"]

\* the files the user has for each uploader, as read_csv returns them; the
\* last one of each has no value at all
FilesA ==
    {[name |-> "ledger",
      columns |-> <<id, cx, cy>>,
      rows |-> << <<(<<"a">>), (<<"1">>), (<<"1">>)>>,
                  <<(<<"b">>), (<<"1">>), NaN>> >>],
     [name |-> "blank",
      columns |-> <<id, cx>>,
      rows |-> << <<NaN, NaN>> >>]}

FilesB ==
    {[name |-> "statement",
      columns |-> <<id, cx, cy>>,
      rows |-> << <<(<<"a">>), (<<"1">>), NaN>>,
                  <<(<<"c">>), NaN, (<<"1">>)>> >>],
     [name |-> "export",
      columns |-> <<no, KEY>>,
      rows |-> << <<(<<"a">>), Blank>>,
                  <<(<<"1">>), (<<"1">>)>> >>],
     [name |-> "void",
      columns |-> <<id, cx>>,
      rows |-> <<>>]}

AsTable(file) == [columns |-> file.columns, rows |-> file.rows]

\* lines 100-108
InitialSession ==
    [step |-> 1,
     file_a_processed |-> NoTable, file_b_processed |-> NoTable,
     results |-> NoOut,
     file_a |-> NoFile, file_b |-> NoFile,
     primary_key_a |-> <<>>, primary_key_b |-> <<>>,
     compare_cols_a |-> <<>>, compare_cols_b |-> <<>>]

\* lines 333-372 (A), 378-417 (B): what one uploader's file leaves in
\* session_state, and whether render_step_1 returned early on it
LoadFile(file, stored) ==
    IF file = NoFile THEN [processed |-> stored, returned |-> FALSE]
    ELSE IF Len(file.rows) = 0 THEN [processed |-> stored, returned |-> TRUE]
    ELSE LET clean == preprocess_csv(AsTable(file))
         IN  IF Len(clean.rows) = 0
             THEN [processed |-> stored, returned |-> TRUE]
             ELSE [processed |-> clean, returned |-> FALSE]

\* render_step_1 (lines 318-422) on the uploaders' files: the session it
\* leaves; the file of B is not looked at when the run returned on A's
RenderStep1(ss) ==
    LET a == LoadFile(ss.file_a, ss.file_a_processed)
        b == LoadFile(ss.file_b, ss.file_b_processed)
    IN  [ss EXCEPT !.file_a_processed = a.processed,
                   !.file_b_processed =
                       IF a.returned THEN ss.file_b_processed ELSE b.processed]

\* whether that run reached line 419 and showed the Next button
Step1Complete(ss) ==
    /\ ~LoadFile(ss.file_a, ss.file_a_processed).returned
    /\ ~LoadFile(ss.file_b, ss.file_b_processed).returned
    /\ ss.file_a_processed # NoTable
    /\ ss.file_b_processed # NoTable

ColumnNames(table) == Range(table.columns)

\* lines 445, 458: st.metric raises on table[key].nunique() when the label
\* names several columns, and the run ends before the buttons
MetricRaises(table, key) == Len(Positions(table.columns, key)) > 1

\* lines 487-503: the orders in which a multiselect can hold its options
Selections(table, primary_key) ==
    {sel \in SeqsUpTo(ColumnNames(table) \ {primary_key}, MaxSelected) :
        \A i, j \in DOMAIN sel : i # j => sel[i] # sel[j]}

\* lines 541-551: the comparison runs only when no result is stored
results_of(ss, order, bad) ==
    IF ss.results.none
    THEN compare_dataframes(ss.file_a_processed, ss.file_b_processed,
                            ss.primary_key_a, ss.primary_key_b,
                            ss.compare_cols_a, ss.compare_cols_b, order, bad)
    ELSE ss.results

\* the page render_step_4 shows: line 561 raises on a None result
Step4Page(results) == IF results.none THEN "error" ELSE "results"

\* a script run at step 4 (lines 531-643)
RenderStep4(ss) ==
    \E order \in Orders(common_keys(ss.file_a_processed, ss.file_b_processed,
                                     ss.primary_key_a, ss.primary_key_b,
                                     ss.compare_cols_a, ss.compare_cols_b)) :
       /\ session_state' = [ss EXCEPT !.results = results_of(ss, order, {})]
       /\ page' = Step4Page(session_state'.results)

InitWizard ==
    /\ pc = "wizard"
    /\ session_state = InitialSession
    /\ page = "step1"
    /\ EngineIdle /\ NormIdle

\* a file is put in, or taken out of, the uploader of A; the script reruns
UploadA ==
    /\ session_state.step = 1
    /\ \E f \in FilesA \cup {NoFile} :
          /\ f # session_state.file_a
          /\ session_state' = RenderStep1([session_state EXCEPT !.file_a = f])
    /\ page' = "step1"
    /\ UNCHANGED <<pc, engineVars, normVars>>

UploadB ==
    /\ session_state.step = 1
    /\ \E f \in FilesB \cup {NoFile} :
          /\ f # session_state.file_b
          /\ session_state' = RenderStep1([session_state EXCEPT !.file_b = f])
    /\ page' = "step1"
    /\ UNCHANGED <<pc, engineVars, normVars>>

\* lines 419-422; the uploaders are not rendered at step 2 and lose their files
Next1 ==
    /\ session_state.step = 1
    /\ Step1Complete(session_state)
    /\ session_state' = [session_state EXCEPT !.step = 2,
                             !.file_a = NoFile, !.file_b = NoFile]
    /\ page' = "step2"
    /\ UNCHANGED <<pc, engineVars, normVars>>

\* lines 464-466
Back2 ==
    /\ session_state.step = 2
    /\ \E ka \in ColumnNames(session_state.file_a_processed) :
       \E kb \in ColumnNames(session_state.file_b_processed) :
          /\ ~MetricRaises(session_state.file_a_processed, ka)
          /\ ~MetricRaises(session_state.file_b_processed, kb)
    /\ session_state' = RenderStep1([session_state EXCEPT !.step = 1])
    /\ page' = "step1"
    /\ UNCHANGED <<pc, engineVars, normVars>>

\* lines 437-472: both keys selected, Next pressed
Next2 ==
    /\ session_state.step = 2
    /\ \E ka \in ColumnNames(session_state.file_a_processed) :
       \E kb \in ColumnNames(session_state.file_b_processed) :
          /\ ~MetricRaises(session_state.file_a_processed, ka)
          /\ ~MetricRaises(session_state.file_b_processed, kb)
          /\ session_state' = [session_state EXCEPT !.primary_key_a = ka,
                                   !.primary_key_b = kb, !.step = 3]
    /\ page' = "step3"
    /\ UNCHANGED <<pc, engineVars, normVars>>

\* lines 505-508: the buttons of step 3 show for a selection of equal,
\* positive lengths
ValidSelection(ca, cb) == ca # <<>> /\ cb # <<>> /\ Len(ca) = Len(cb)

\* lines 521-523
Back3 ==
    /\ session_state.step = 3
    /\ \E ca \in Selections(session_state.file_a_processed,
                             session_state.primary_key_a) :
       \E cb \in Selections(session_state.file_b_processed,
                             session_state.primary_key_b) :
          ValidSelection(ca, cb)
    /\ session_state' = [session_state EXCEPT !.step = 2]
    /\ page' = "step2"
    /\ UNCHANGED <<pc, engineVars, normVars>>

\* lines 525-529, then the run of step 4
StartComparison ==
    /\ session_state.step = 3
    /\ \E ca \in Selections(session_state.file_a_processed,
                             session_state.primary_key_a) :
       \E cb \in Selections(session_state.file_b_processed,
                             session_state.primary_key_b) :
          /\ ValidSelection(ca, cb)
          /\ RenderStep4([session_state EXCEPT !.compare_cols_a = ca,
                              !.compare_cols_b = cb, !.step = 4])
    /\ UNCHANGED <<pc, engineVars, normVars>>

\* lines 635-637; the buttons show only when the page did not raise
Back4 ==
    /\ session_state.step = 4
    /\ page = "results"
    /\ session_state' = [session_state EXCEPT !.step = 3]
    /\ page' = "step3"
    /\ UNCHANGED <<pc, engineVars, normVars>>

\* lines 639-643, then __init__ (lines 100-108) and the run of step 1
StartNew ==
    /\ session_state.step = 4
    /\ page = "results"
    /\ session_state' = InitialSession
    /\ page' = "step1"
    /\ UNCHANGED <<pc, engineVars, normVars>>

Next ==
    \/ UploadA \/ UploadB \/ Next1
    \/ Back2 \/ Next2
    \/ Back3 \/ StartComparison
    \/ Back4 \/ StartNew

Spec == InitWizard /\ [][Next]_vars

(***************************************************************************)
(* What the engine's claims speak of, stated on the arguments themselves   *)
(***************************************************************************)
ColumnIndex(table, name) == CHOOSE i \in DOMAIN table.columns : table.columns[i] = name

\* the text of a value after trimming, a missing value being the empty text
TrimmedText(v) == IF v = NaN THEN <<>> ELSE Strip(Str(v))

\* the rows of a table whose key is present and not empty after trimming
ValidRows(table, key) ==
    {r \in DOMAIN table.rows :
        LET k == table.rows[r][ColumnIndex(table, key)]
        IN  k # NaN /\ Strip(Str(k)) # <<>>}

KeyOfRow(table, key, r) == Strip(Str(table.rows[r][ColumnIndex(table, key)]))

KeySet(table, key) == {KeyOfRow(table, key, r) : r \in ValidRows(table, key)}

FirstOccurrence(table, key, k) ==
    CHOOSE r \in ValidRows(table, key) :
        /\ KeyOfRow(table, key, r) = k
        /\ \A q \in ValidRows(table, key) : KeyOfRow(table, key, q) = k => r <= q

\* the common keys whose first rows differ in at least one positional pair
ExpectedMismatchKeys ==
    {k \in KeySet(df_a, key_a) \cap KeySet(df_b, key_b) :
        \E i \in 1..Min(Len(cols_a), Len(cols_b)) :
            TrimmedText(df_a.rows[FirstOccurrence(df_a, key_a, k)]
                                 [ColumnIndex(df_a, cols_a[i])])
            # TrimmedText(df_b.rows[FirstOccurrence(df_b, key_b, k)]
                                   [ColumnIndex(df_b, cols_b[i])])}

MismatchKeys(o) == {o.mismatches[i].key : i \in DOMAIN o.mismatches}

Returned == pc = "done" /\ ~out.none

\* C1: when no per-key comparison failed, the keys of the mismatch records are
\* exactly the common keys whose first-occurrence rows differ, under trimmed
\* text with a missing value as the empty text, in at least one positional
\* pair; each such key has one record
MismatchSoundness ==
    (Returned /\ out.warnings = {}) =>
        /\ MismatchKeys(out) = ExpectedMismatchKeys
        /\ Len(out.mismatches) = Cardinality(MismatchKeys(out))

\* a record reported for a key whose first pair is equal only after trimming
\* and whose second pair differs
MismatchSoundnessWitness ==
    /\ Returned /\ out.warnings = {}
    /\ \E i \in DOMAIN out.mismatches :
          LET p == out.mismatches[i].pairs
          IN  /\ Len(p) = 2
              /\ p[1][1] # p[1][2]
              /\ TrimmedText(p[1][1]) = TrimmedText(p[1][2])
              /\ TrimmedText(p[2][1]) # TrimmedText(p[2][2])

KeysOfRows(rows) == {rows[i][1] : i \in DOMAIN rows}
CountKey(rows, k) == Cardinality({i \in DOMAIN rows : rows[i][1] = k})

PartitionSide(table, key, other, okey, only_in, total) ==
    LET KA == KeySet(table, key)
        KB == KeySet(other, okey)
        matched == {r \in ValidRows(table, key) : KeyOfRow(table, key, r) \in KB}
    IN  /\ total = Cardinality(ValidRows(table, key))
        /\ Len(only_in) + Cardinality(matched) = total
        /\ KeysOfRows(only_in) \cap (KA \cap KB) = {}
        /\ KeysOfRows(only_in) \cup (KA \cap KB) = KA
        /\ \A k \in KA \ KB :
              CountKey(only_in, k) =
                  Cardinality({r \in ValidRows(table, key) :
                                  KeyOfRow(table, key, r) = k})

\* C2: on each side the rows with a present, non-empty key are split between
\* only_in and the rows with a common key, none dropped or repeated; the rows
\* with a missing or empty key are in neither; total counts the former
PartitionCompleteness ==
    Returned =>
        /\ PartitionSide(df_a, key_a, df_b, key_b, out.only_in_a, out.total_a)
        /\ PartitionSide(df_b, key_b, df_a, key_a, out.only_in_b, out.total_b)
        /\ out.common_count =
               Cardinality(KeySet(df_a, key_a) \cap KeySet(df_b, key_b))

\* A holds a row only in A, a row with a common key and a row without a key
PartitionCompletenessWitness ==
    /\ Returned
    /\ Len(out.only_in_a) = 1
    /\ out.common_count = 1
    /\ Len(df_a.rows) = 3
    /\ out.total_a = 2

BadPairing == cols_a = <<>> \/ cols_b = <<>> \/ Len(cols_a) # Len(cols_b)

\* C5: a call with an empty pairing or with column lists of different lengths
\* reports an error and returns None from the checks, before any comparison
BadPairingRejected ==
    (pc = "done" /\ BadPairing) => (out.none /\ out.stage = "validate")

MissingColumn ==
    \/ key_a \notin Range(df_a.columns)
    \/ key_b \notin Range(df_b.columns)
    \/ \E i \in DOMAIN cols_a : cols_a[i] \notin Range(df_a.columns)
    \/ \E i \in DOMAIN cols_b : cols_b[i] \notin Range(df_b.columns)

\* C6: a call naming a key or a comparison column its table does not have
\* reports an error and returns None from the checks, before projection, key
\* normalization or comparison, with no partial output
MissingColumnRejected ==
    (pc = "done" /\ MissingColumn) =>
        /\ out.none
        /\ out.stage = "validate"
        /\ out.error \in {"key_a_not_found", "key_b_not_found",
                           "cols_a_not_found", "cols_b_not_found"}
        /\ out.only_in_a = <<>> /\ out.only_in_b = <<>> /\ out.mismatches = <<>>
        /\ out.warnings = {}

\* both keys and the columns of A exist, a column of B does not
MissingColumnRejectedWitness ==
    /\ pc = "done"
    /\ key_a \in Range(df_a.columns) /\ key_b \in Range(df_b.columns)
    /\ cols_a # <<>> /\ \A i \in DOMAIN cols_a : cols_a[i] \in Range(df_a.columns)
    /\ \E i \in DOMAIN cols_b : cols_b[i] \notin Range(df_b.columns)
    /\ out.none /\ out.error = "cols_b_not_found"

\* the result of the same call when no key's comparison raises
FailureFree ==
    compare_dataframes(df_a, df_b, key_a, key_b, cols_a, cols_b,
        CHOOSE o \in Orders(common_keys(df_a, df_b, key_a, key_b, cols_a, cols_b)) : TRUE,
        {})

\* C7: a key whose comparison raises is reported and yields no record; every
\* other common key is compared as in a failure-free run, and only_in_a,
\* only_in_b, total_a, total_b and common_count are those of that run
PartialFailurePolicy ==
    Returned =>
        LET ff == FailureFree
        IN  /\ raising \subseteq out.warnings
            /\ MismatchKeys(out) = ExpectedMismatchKeys \ out.warnings
            /\ Len(out.mismatches) = Cardinality(MismatchKeys(out))
            /\ (out.warnings = raising) =>
                  {out.mismatches[i] : i \in DOMAIN out.mismatches} =
                     {m \in {ff.mismatches[i] : i \in DOMAIN ff.mismatches} :
                         m.key \notin raising}
            /\ out.only_in_a = ff.only_in_a
            /\ out.only_in_b = ff.only_in_b
            /\ out.total_a = ff.total_a
            /\ out.total_b = ff.total_b
            /\ out.common_count = ff.common_count

\* two common keys that both differ: one raised, the other is reported
PartialFailurePolicyWitness ==
    /\ Returned
    /\ Cardinality(raising) = 1
    /\ out.warnings = raising
    /\ raising \subseteq ExpectedMismatchKeys
    /\ Len(out.mismatches) = 1

\* the call with the roles of A and B exchanged
Swapped ==
    compare_dataframes(df_b, df_a, key_b, key_a, cols_b, cols_a,
        CHOOSE o \in Orders(common_keys(df_b, df_a, key_b, key_a, cols_b, cols_a)) : TRUE,
        raising)

\* C8: exchanging A and B exchanges only_in_a with only_in_b and total_a
\* with total_b, and leaves common_count and the set of mismatch keys
Symmetry ==
    pc = "done" =>
        LET sw == Swapped
        IN  /\ sw.none = out.none
            /\ sw.only_in_a = out.only_in_b
            /\ sw.only_in_b = out.only_in_a
            /\ sw.total_a = out.total_b
            /\ sw.total_b = out.total_a
            /\ sw.common_count = out.common_count
            /\ MismatchKeys(sw) = MismatchKeys(out)

\* rows only in A, none only in B, a mismatch, and more rows in A than in B
SymmetryWitness ==
    /\ Returned
    /\ out.only_in_a # <<>> /\ out.only_in_b = <<>> /\ out.mismatches # <<>>
    /\ out.total_a > out.total_b

\* the rows of a table with a usable key that the other table does not hold,
\* by position, in row order
OnlyInPositions(table, key, other, okey) ==
    SelectSeq([i \in 1..Len(table.rows) |-> i],
              LAMBDA r : /\ r \in ValidRows(table, key)
                         /\ KeyOfRow(table, key, r) \notin KeySet(other, okey))

\* only_in lists the rows at those positions, in that order: the trimmed key,
\* then (when no label is ambiguous) the compared columns
KeepsRowOrder(only_in, table, key, cols, other, okey) ==
    LET pos == OnlyInPositions(table, key, other, okey)
    IN  /\ Len(only_in) = Len(pos)
        /\ \A j \in DOMAIN pos :
              /\ only_in[j][1] = KeyOfRow(table, key, pos[j])
              /\ Len(only_in[j]) = 1 + Len(cols) =>
                    \A c \in DOMAIN cols :
                        only_in[j][1 + c] =
                            table.rows[pos[j]][ColumnIndex(table, cols[c])]

\* C11: the call's output is fixed by its arguments: whatever order the loop
\* visits the common keys in, the mismatch records come out in the same
\* order, and only_in_a and only_in_b keep the row order of their table
OrderDeterminism ==
    Returned =>
        /\ \A o \in Orders(common_keys(df_a, df_b, key_a, key_b, cols_a, cols_b)) :
              compare_dataframes(df_a, df_b, key_a, key_b, cols_a, cols_b,
                                 o, raising).mismatches = out.mismatches
        /\ KeepsRowOrder(out.only_in_a, df_a, key_a, cols_a, df_b, key_b)
        /\ KeepsRowOrder(out.only_in_b, df_b, key_b, cols_b, df_a, key_a)

\* the rows with a usable key that an earlier row of the table also holds
LaterDuplicates(table, key) ==
    {r \in ValidRows(table, key) :
        r # FirstOccurrence(table, key, KeyOfRow(table, key, r))}

\* the tables that differ from the given one in one cell, outside the key
\* column, of one later duplicate row
ChangedLater(table, key) ==
    {[table EXCEPT !.rows[r][i] = v] :
        r \in LaterDuplicates(table, key),
        i \in DOMAIN table.columns \ {ColumnIndex(table, key)},
        v \in DataVals}

\* the mismatch records of a call on other tables, for some order of visit,
\* are the ones returned
SameMismatches(dfa, dfb) ==
    \E o \in Orders(common_keys(dfa, dfb, key_a, key_b, cols_a, cols_b)) :
        compare_dataframes(dfa, dfb, key_a, key_b, cols_a, cols_b,
                           o, raising).mismatches = out.mismatches

\* C12: a common key has at most one mismatch record; whether it has one and
\* the values the record carries are those of the first row with the key on
\* side A and the first such row on side B; changing a later row with the
\* same key leaves the mismatch records as they are
DuplicateKeys ==
    Returned =>
        /\ Len(out.mismatches) = Cardinality(MismatchKeys(out))
        /\ MismatchKeys(out) = ExpectedMismatchKeys \ out.warnings
        /\ \A m \in DOMAIN out.mismatches :
              LET rec   == out.mismatches[m]
                  row_a == df_a.rows[FirstOccurrence(df_a, key_a, rec.key)]
                  row_b == df_b.rows[FirstOccurrence(df_b, key_b, rec.key)]
              IN  rec.pairs =
                      [c \in 1..Min(Len(cols_a), Len(cols_b)) |->
                          <<row_a[ColumnIndex(df_a, cols_a[c])],
                            row_b[ColumnIndex(df_b, cols_b[c])]>>]
        /\ \A t \in ChangedLater(df_a, key_a) : SameMismatches(t, df_b)
        /\ \A t \in ChangedLater(df_b, key_b) : SameMismatches(df_a, t)

\* a record for a key that A holds on two rows, the later of which agrees
\* with the row of B
DuplicateKeysWitness ==
    /\ Returned
    /\ Len(cols_a) = 1 /\ Len(cols_b) = 1
    /\ \E m \in DOMAIN out.mismatches :
       \E r \in LaterDuplicates(df_a, key_a) :
          /\ KeyOfRow(df_a, key_a, r) = out.mismatches[m].key
          /\ TrimmedText(df_a.rows[r][ColumnIndex(df_a, cols_a[1])])
                = TrimmedText(out.mismatches[m].pairs[1][2])

(***************************************************************************)
(* What the normalizer's claims speak of                                   *)
(***************************************************************************)
Distinct(seq) == \A i, j \in DOMAIN seq : i # j => seq[i] # seq[j]

\* C3: the column names of the table preprocess_csv returns are pairwise
\* distinct and none is empty
ColumnUniqueness ==
    pc = "done" =>
        /\ Distinct(norm.table.columns)
        /\ \A i \in DOMAIN norm.table.columns : norm.table.columns[i] # <<>>

\* header in place, names clean and distinct, no empty row, no empty column
IsNormalized(table) ==
    /\ table.rows # <<>>
    /\ Distinct(table.columns)
    /\ \A i \in DOMAIN table.columns :
          /\ notna(table.columns[i])
          /\ Strip(table.columns[i]) = table.columns[i]
          /\ table.columns[i] \notin {<<>>, <<"n", "a", "n">>, <<"N", "o", "n", "e">>}
          /\ \E r \in DOMAIN table.rows : notna(table.rows[r][i])
    /\ \A r \in DOMAIN table.rows : \E i \in DOMAIN table.rows[r] :
          notna(table.rows[r][i])

\* C9: preprocess_csv returns an already normalized table as it is
NormalizationIdempotence ==
    (pc = "done" /\ IsNormalized(df)) => norm.table = df

\* the rows detect_header_row scans (0-based), with at least one keyword
ScannedWithKeyword(table) ==
    {i \in 0..(Min(15, Len(table.rows)) - 1) : KeywordMatches(table.rows[i + 1]) >= 1}

RowsAfter(table, p) ==
    {i \in (p + 1)..Len(table.rows) :
        \E c \in DOMAIN table.rows[i] : notna(table.rows[i][c])}

\* C13: the row detect_header_row selects, at index 0 or later, gives the
\* returned table its column names and is not one of its data rows, and no
\* row before it is: the data rows are the rows after it
HeaderRowRemoval ==
    (pc = "done" /\ norm.scanned.rows # <<>>) =>
        LET header == norm.scanned.rows[norm.header_idx + 1]
        IN  /\ Range(norm.table.columns) \subseteq Range(CleanColumns(header))
            /\ Len(norm.table.rows) =
                   Cardinality(RowsAfter(norm.scanned, norm.header_idx + 1))

(***************************************************************************)
(* What the wizard's claims speak of                                       *)
(***************************************************************************)
\* the result of comparing what session_state holds now
FreshResult ==
    compare_dataframes(session_state.file_a_processed, session_state.file_b_processed,
        session_state.primary_key_a, session_state.primary_key_b,
        session_state.compare_cols_a, session_state.compare_cols_b,
        CHOOSE o \in Orders(common_keys(
            session_state.file_a_processed, session_state.file_b_processed,
            session_state.primary_key_a, session_state.primary_key_b,
            session_state.compare_cols_a, session_state.compare_cols_b)) : TRUE,
        {})

SameOutcome(r, q) ==
    /\ r.none = q.none
    /\ r.only_in_a = q.only_in_a /\ r.only_in_b = q.only_in_b
    /\ r.total_a = q.total_a /\ r.total_b = q.total_b
    /\ r.common_count = q.common_count
    /\ Range(r.mismatches) = Range(q.mismatches)

\* C4: the result shown at step 4 is the one of the tables, keys and column
\* pairing stored at that moment
ResultFreshness ==
    (session_state.step = 4 /\ page = "results") =>
        SameOutcome(session_state.results, FreshResult)

\* both processed tables are stored and hold a row
TablesStored ==
    /\ session_state.file_a_processed # NoTable
    /\ session_state.file_b_processed # NoTable
    /\ session_state.file_a_processed.rows # <<>>
    /\ session_state.file_b_processed.rows # <<>>

\* the stored keys and comparison columns are columns of the stored tables,
\* and the comparison columns pair off
SelectionStored ==
    /\ session_state.primary_key_a \in ColumnNames(session_state.file_a_processed)
    /\ session_state.primary_key_b \in ColumnNames(session_state.file_b_processed)
    /\ Range(session_state.compare_cols_a)
           \subseteq ColumnNames(session_state.file_a_processed)
    /\ Range(session_state.compare_cols_b)
           \subseteq ColumnNames(session_state.file_b_processed)
    /\ ValidSelection(session_state.compare_cols_a, session_state.compare_cols_b)

\* C14: from step 2 on both processed tables are stored and not empty; at
\* step 4 the stored keys and comparison columns are columns of the stored
\* tables, the two lists are non-empty and of equal length, and the call of
\* compare_dataframes has not returned None
WizardGating ==
    pc = "wizard" =>
        /\ session_state.step >= 2 => TablesStored
        /\ session_state.step = 4 =>
              /\ SelectionStored
              /\ ~session_state.results.none
              /\ page # "error"

====
